---- MODULE Spec2Model ----
(***************************************************************************)
(* Membership clearance / payment-verification workflow of specs-nexus.    *)
(* The state is the "clearances" table plus the HTTP requests in flight.   *)
(* Every request handler of app/routes/membership.py and                   *)
(* app/routes/cash_payments.py that writes a Clearance row is an action;   *)
(* a handler that reads, decides and commits in separate database          *)
(* statements is split at those statements, so that two requests can       *)
(* interleave exactly where two sessions of the database can.              *)
(***************************************************************************)
EXTENDS Integers, Sequences, FiniteSets, TLC

VARIABLES rows, call, ncalls, attendance, certificates, archived_events, report,
          participants, runs

vars == <<rows, call, ncalls, attendance, certificates, archived_events, report,
         participants, runs>>
\* the state of the events, attendance and certificates routes; runs: the
\* generate_bulk requests in flight
certvars == <<attendance, certificates, archived_events, report, participants, runs>>

(***************************************************************************)
(* Bounds of the model.                                                    *)
(***************************************************************************)
\* rows the clearances table may hold
MaxRows == 3
\* requests started in one behaviour of Spec (sequential requests)
MaxCalls == 3
\* requests started in one behaviour of SpecConc (two sessions interleaved)
MaxConcCalls == 2
\* requests started in one behaviour of SpecCert (attendance and certificates)
MaxCertCalls == 3

(***************************************************************************)
(* Values.                                                                 *)
(***************************************************************************)
\* SQL NULL / Python None of a string or timestamp column
NULL == "NULL"
\* SQL NULL of reference_number (references are sequences of characters)
NullRef == <<>>
\* SQL NULL of verified_by (officer ids are positive primary keys)
NullId == 0
\* datetime.now(Asia/Manila): the timestamp a handler stamps
Now == "now"

Users == {1, 2}
\* a user id no users row carries
UserIdInputs == Users \cup {3}
Officers == {1}
OfficerName == [o \in Officers |-> "Jane"]

Events == {1, 2}
\* event_participants: the users registered for each event at the start
Participants == [e \in Events |-> IF e = 1 THEN {1, 2} ELSE {1}]

Requirements == {"1st Semester Membership", "2nd Semester Membership"}
RequirementInputs == Requirements \cup {"3rd Semester Membership"}
PaymentStatuses == {"Not Paid", "Pending", "Verifying", "Paid", "Rejected"}
Statuses == {"Clear", "Processing", "Not Yet Cleared"}

\* the fee an officer sets when he creates records, the amounts he types later
Fee == 50
\* 0: an amount the validation refuses (or, for the requirement update, a
\* payload without the "amount" key)
AmountInputs == {0, 100}
\* the payment_status values an officer posts to /officer/create
CreateStatusInputs == {"Not Paid", "Verifying", "Paid"}

ReceiptUrl == "receipts/r.png"

Fields == {"user_id", "requirement", "status", "payment_status", "receipt_path",
           "amount", "archived", "payment_method", "reference_number",
           "receipt_number", "denial_reason", "payment_date", "approval_date",
           "approved_by", "verified_by", "verified_at"}

\* Clearance(...) with the column defaults; receipt_path as the caller passes it
NewClearance(user_id, requirement, amount, payment_status, receipt_path) ==
    [user_id |-> user_id, requirement |-> requirement,
     status |-> "Not Yet Cleared", payment_status |-> payment_status,
     receipt_path |-> receipt_path, amount |-> amount, archived |-> FALSE,
     payment_method |-> NULL, reference_number |-> NullRef,
     receipt_number |-> NullRef, denial_reason |-> NULL, payment_date |-> NULL,
     approval_date |-> NULL, approved_by |-> NULL, verified_by |-> NullId,
     verified_at |-> NULL]

Ids(rs) == 1..Len(rs)
Active(rs) == {i \in Ids(rs) : ~rs[i].archived}


(***************************************************************************)
(* The database: UNIQUE constraints of the clearances table and the        *)
(* unit-of-work flush of the ORM session.                                  *)
(***************************************************************************)
\* UniqueConstraint("payment_method", "reference_number"): over every row of
\* the table, archived or not; a NULL in either column never conflicts
\* variants of the two constraints that also key on user_id
UqReferenceOK_PerUser(rs) ==
    \A i, j \in Ids(rs) :
        (i # j /\ rs[i].user_id = rs[j].user_id
         /\ rs[i].payment_method # NULL /\ rs[i].reference_number # NullRef)
            => ~(rs[i].payment_method = rs[j].payment_method
                 /\ rs[i].reference_number = rs[j].reference_number)

UqReferenceOK(rs) ==
    \A i, j \in Ids(rs) :
        (i # j /\ rs[i].payment_method # NULL /\ rs[i].reference_number # NullRef)
            => ~(rs[i].payment_method = rs[j].payment_method
                 /\ rs[i].reference_number = rs[j].reference_number)

\* UniqueConstraint("receipt_number") / unique=True: over every row of the table
UqReceiptOK_PerUser(rs) ==
    \A i, j \in Ids(rs) :
        (i # j /\ rs[i].user_id = rs[j].user_id /\ rs[i].receipt_number # NullRef)
            => rs[i].receipt_number # rs[j].receipt_number

UqReceiptOK(rs) ==
    \A i, j \in Ids(rs) :
        (i # j /\ rs[i].receipt_number # NullRef)
            => rs[i].receipt_number # rs[j].receipt_number

TimeFields == {"payment_date", "approval_date", "verified_at"}

\* The UPDATE a flush emits for one loaded object: only the attributes whose
\* assigned value differs from the value loaded into the session (snap) are
\* written; every other column keeps what the table holds now (cur).  A fresh
\* datetime.now() always differs from the loaded value.
Flushed(cur, snap, asg) ==
    [f \in Fields |->
        IF f \in DOMAIN asg
           /\ (IF f \in TimeFields /\ asg[f] = Now THEN TRUE ELSE asg[f] # snap[f])
        THEN asg[f] ELSE cur[f]]

\* does the flush of asg emit an UPDATE at all
IsDirty(snap, asg) ==
    \E f \in DOMAIN asg :
        IF f \in TimeFields /\ asg[f] = Now THEN TRUE ELSE asg[f] # snap[f]

\* the table after the UPDATE of row id
Updated(rs, id, snap, asg) == [rs EXCEPT ![id] = Flushed(rs[id], snap, asg)]

\* COMMIT succeeds iff the new table satisfies both UNIQUE constraints;
\* otherwise the statement raises IntegrityError and the transaction is undone
CommitOK(rs) == UqReferenceOK(rs) /\ UqReceiptOK(rs)


(***************************************************************************)
(* Text: payment types, reference numbers and receipt numbers are          *)
(* sequences of one-character strings, so that lower(), strip(), re.sub(), *)
(* isalnum(), isdigit() and upper() are computed.                          *)
(***************************************************************************)
Digit == {"0", "1", "2", "3", "4", "5", "6", "7", "8", "9"}
\* the letters the payloads use
Uppers == <<"A", "B", "C", "D", "G", "H", "M", "P", "R", "S", "W", "X", "Y", "Z">>
Lowers == <<"a", "b", "c", "d", "g", "h", "m", "p", "r", "s", "w", "x", "y", "z">>
UpperCase == {Uppers[k] : k \in DOMAIN Uppers}
LowerCase == {Lowers[k] : k \in DOMAIN Lowers}
Whitespace == {" "}

ToUpper(ch) ==
    IF ch \in LowerCase THEN Uppers[CHOOSE k \in DOMAIN Lowers : Lowers[k] = ch] ELSE ch
ToLower(ch) ==
    IF ch \in UpperCase THEN Lowers[CHOOSE k \in DOMAIN Uppers : Uppers[k] = ch] ELSE ch

\* str.upper() / str.lower()
Upper(s) == [k \in 1..Len(s) |-> ToUpper(s[k])]
Lower(s) == [k \in 1..Len(s) |-> ToLower(s[k])]

\* str.strip(): drop leading and trailing whitespace
RECURSIVE LStrip(_)
LStrip(s) == IF s # <<>> /\ Head(s) \in Whitespace THEN LStrip(Tail(s)) ELSE s
RECURSIVE RStrip(_)
RStrip(s) ==
    IF s # <<>> /\ s[Len(s)] \in Whitespace THEN RStrip(SubSeq(s, 1, Len(s) - 1)) ELSE s
Strip(s) == RStrip(LStrip(s))

IsSepChar(ch) == ch \in Whitespace \cup {"-"}
KeepChar(ch) == ~IsSepChar(ch)
\* re.sub(r'[\s\-]', '', s)
RemoveSeparators(s) == SelectSeq(s, KeepChar)

\* str.isalnum() / str.isdigit(): non-empty and every character in the class
IsAlnum(s) == s # <<>> /\ \A k \in 1..Len(s) : s[k] \in Digit \cup UpperCase \cup LowerCase
IsDigit(s) == s # <<>> /\ \A k \in 1..Len(s) : s[k] \in Digit

GcashRefLen == 13
MayaRefLen == 16

\* the payment types a client sends
TypeGcash == <<"g", "c", "a", "s", "h">>
TypeGCashSp == <<"G", "C", "a", "s", "h", " ">>
TypePaymaya == <<"p", "a", "y", "m", "a", "y", "a">>
TypeCash == <<"c", "a", "s", "h">>
TypeCard == <<"c", "a", "r", "d">>

\* payload.payment_type.lower().strip(), as the payment_method value it
\* spells ("other": a text that is none of the three)
NormPaymentType(raw) ==
    LET payment_type == Strip(Lower(raw)) IN
    CASE payment_type = TypeGcash -> "gcash"
      [] payment_type = TypePaymaya -> "paymaya"
      [] payment_type = TypeCash -> "cash"
      [] OTHER -> "other"

\* update_receipt's validation of (payment_type, reference_number): the
\* normalised reference when it is accepted, NullRef when it raises 400
ValidReference(payment_type, raw) ==
    LET reference_number == Strip(raw)
        clean_ref == RemoveSeparators(reference_number)
    IN  IF reference_number = <<>> THEN FALSE
        ELSE IF payment_type = "gcash"
             THEN Len(clean_ref) = GcashRefLen /\ IsAlnum(clean_ref)
             ELSE Len(clean_ref) = MayaRefLen /\ IsDigit(clean_ref)

\* a normalisation that keeps the letter case of the payload
CleanReference_KeepsCase(raw) == RemoveSeparators(Strip(raw))

CleanReference(raw) == Upper(RemoveSeparators(Strip(raw)))

\* the references a client sends
RefG1 == <<"A", "B", "C", "D", "1", "2", "3", "4", "5", "W", "X", "Y", "Z">>
RefG1v == <<" ", "a", "b", "c", "d", "-", "1", "2", "3", "4", "5", "-", "w", "x", "y", "z">>
RefP1 == <<"1", "2", "3", "4", "5", "6", "7", "8", "9", "0", "1", "2", "3", "4", "5", "6">>
RefShort == <<"A", "B", "C", "D", "1", "2", "3", "4", "5", "W", "X", "Y">>
RefSymbol == <<"A", "B", "C", "D", "1", "2", "3", "4", "5", "W", "X", "Y", "#">>
RefP1Letter == <<"1", "2", "3", "4", "5", "6", "7", "8", "9", "0", "1", "2", "3", "4", "5", "A">>
RefBlank == <<" ", " ">>

\* the (payment_type, reference_number) payloads of update_receipt: the
\* accepted ones and one for each way the validation refuses a payload
ReceiptPayloads ==
    {<<TypeGcash, RefG1>>, <<TypeGCashSp, RefG1v>>, <<TypePaymaya, RefP1>>,
     <<TypeCard, RefG1>>, <<TypeCash, RefG1>>, <<TypeGcash, <<>>>>,
     <<TypeGcash, RefShort>>, <<TypeGcash, RefP1>>, <<TypePaymaya, RefG1>>,
     <<TypeGcash, RefSymbol>>, <<TypePaymaya, RefP1Letter>>, <<TypeGcash, RefBlank>>}

\* receipt numbers an officer types; (payload.receipt_number or "").strip()
ReceiptR1 == <<"R", "1">>
ReceiptR1Sp == <<" ", "R", "1">>
ReceiptR2 == <<"R", "2">>
ReceiptBlank == <<" ">>
StripReceipt(raw) == Strip(raw)


(***************************************************************************)
(* Requests.  call[p] is the request session p is serving: its handler     *)
(* (op), where the handler stands (pc), its payload, the Clearance object  *)
(* loaded into its ORM session (snap) and, once it has returned, the HTTP  *)
(* status (res) and detail.                                                *)
(***************************************************************************)
Sessions == {"s1", "s2"}

NoRow == NewClearance(0, NULL, 0, NULL, NULL)

\* the response of the last request to the attendance and certificate routes;
\* uploaded: the users whose certificate was rendered, converted and stored in
\* the bucket by the request; previous: the request served before it
NoReport ==
    [op |-> "none", event_id |-> 0, user_id |-> 0, res |-> 0, detail |-> NULL,
     eligible_user_ids |-> {}, generated_count |-> 0, failed_count |-> 0,
     failed_users |-> {}, uploaded |-> {},
     previous |-> [op |-> "none", event_id |-> 0, res |-> 0]]

\* a generate_bulk request that runs step by step: where it is in the loop
\* over eligible_users, the users it has attempted (in order) and its counters
NoRun ==
    [pc |-> "idle", event_id |-> 0, res |-> 0, eligible_user_ids |-> {}, todo |-> {},
     attempted |-> <<>>, failed_users |-> {}, uploaded |-> {}]

Idle == [op |-> "idle", pc |-> "idle", user |-> 0, mid |-> 0, requirement |-> NULL,
         payment_type |-> NullRef, reference_number |-> NullRef, amount |-> 0,
         receipt_number |-> NullRef, officer |-> NullId, action |-> NULL,
         denial_reason |-> NULL, officer_name |-> NULL, payment_status |-> NULL,
         snap |-> NoRow, todo |-> {}, res |-> 0, detail |-> NULL]

Result(rs, c) == [rows |-> rs, c |-> c]
Goto(c, pc) == [c EXCEPT !.pc = pc]
\* raise HTTPException(status_code, detail) / return: the session is closed and
\* its loaded objects are gone.  What stays is the response and the payload:
\* what was posted (400), or nothing (404), or also whom the request was about
\* and who made it: the record, the user, the officer.
Raise(c, code, detail) ==
    IF code = 404
    THEN [Idle EXCEPT !.op = c.op, !.pc = "done", !.res = code, !.detail = detail]
    ELSE IF code = 400
    THEN [Idle EXCEPT !.op = c.op, !.pc = "done", !.res = code, !.detail = detail,
                      !.requirement = c.requirement, !.amount = c.amount,
                      !.payment_type = c.payment_type,
                      !.reference_number = c.reference_number,
                      !.receipt_number = c.receipt_number, !.action = c.action]
    ELSE [Idle EXCEPT !.op = c.op, !.pc = "done", !.res = code, !.detail = detail,
                      !.mid = c.mid, !.user = c.user, !.requirement = c.requirement,
                      !.amount = c.amount, !.officer = c.officer,
                      !.payment_type = c.payment_type,
                      !.reference_number = c.reference_number,
                      !.receipt_number = c.receipt_number, !.action = c.action,
                      !.denial_reason = c.denial_reason,
                      !.officer_name = c.officer_name]
Return(c) == Raise(c, 200, "ok")

\* the first() of a query filtered by id, owner and archived == False
OwnedActive(rs, mid, user) == mid \in Active(rs) /\ rs[mid].user_id = user

(***************************************************************************)
(* update_receipt (submit_receipt)                                         *)
(***************************************************************************)
update_receipt_start(rs, c) ==
    LET payment_type == NormPaymentType(c.payment_type) IN
    IF payment_type \notin {"gcash", "paymaya", "cash"}
    THEN {Result(rs, Raise(c, 400, "Invalid payment_type"))}
    ELSE IF payment_type = "cash"
    THEN {Result(rs, Raise(c, 400, "Cash payments do not require receipt upload"))}
    ELSE IF ~ValidReference(payment_type, c.reference_number)
    THEN {Result(rs, Raise(c, 400, "Invalid reference number"))}
    ELSE IF ~OwnedActive(rs, c.mid, c.user)
    THEN {Result(rs, Raise(c, 404, "Membership not found"))}
    ELSE {Result(rs, [c EXCEPT !.pc = "queried", !.snap = rs[c.mid]])}

\* a reuse guard that looks among the caller's own records only
ReferenceInUse_OwnRecords(rs, mid, payment_type, reference_number) ==
    \E i \in Active(rs) :
        /\ rs[i].user_id = rs[mid].user_id
        /\ rs[i].payment_method = payment_type
        /\ rs[i].reference_number = reference_number
        /\ i # mid

\* the reuse guard: another active record with the same method and reference
ReferenceInUse(rs, mid, payment_type, reference_number) ==
    \E i \in Active(rs) :
        /\ rs[i].payment_method = payment_type
        /\ rs[i].reference_number = reference_number
        /\ i # mid

update_receipt_check(rs, c) ==
    IF ReferenceInUse(rs, c.mid, NormPaymentType(c.payment_type),
                      CleanReference(c.reference_number))
    THEN {Result(rs, Raise(c, 409, "Reference number already used"))}
    ELSE {Result(rs, Goto(c, "checked"))}

update_receipt_assign(c) ==
    [receipt_path |-> ReceiptUrl, payment_status |-> "Verifying",
     status |-> "Processing", payment_method |-> NormPaymentType(c.payment_type),
     reference_number |-> CleanReference(c.reference_number), payment_date |-> Now]

update_receipt_commit(rs, c, held) ==
    LET new == Updated(rs, c.mid, c.snap, update_receipt_assign(c)) IN
    IF c.mid \in held THEN {}
    ELSE IF CommitOK(new) THEN {Result(new, Return(c))}
    ELSE {Result(rs, Raise(c, 500, "Internal Server Error"))}

(***************************************************************************)
(* select_cash_payment (select_cash)                                       *)
(***************************************************************************)
select_cash_start(rs, c) ==
    IF ~OwnedActive(rs, c.mid, c.user)
    THEN {Result(rs, Raise(c, 404, "Membership not found"))}
    ELSE IF rs[c.mid].payment_status = "Paid"
    THEN {Result(rs, Raise(c, 409, "Membership is already paid"))}
    ELSE {Result(rs, [c EXCEPT !.pc = "queried", !.snap = rs[c.mid]])}

select_cash_assign ==
    [payment_method |-> "cash", payment_status |-> "Pending", status |-> "Processing",
     receipt_path |-> NULL, reference_number |-> NullRef, denial_reason |-> NULL,
     payment_date |-> Now]

select_cash_commit(rs, c, held) ==
    LET new == Updated(rs, c.mid, c.snap, select_cash_assign) IN
    IF c.mid \in held THEN {}
    ELSE IF CommitOK(new) THEN {Result(new, Return(c))}
    ELSE {Result(rs, Raise(c, 500, "Internal Server Error"))}


(***************************************************************************)
(* officer_cash_payment (POST /officer/cash-payment) and                   *)
(* officer_confirm_cash_payment (POST /membership/membership/officer/      *)
(* cash-payment): the two cash-confirmation endpoints.                     *)
(***************************************************************************)
CashOps == {"officer_cash_payment", "officer_confirm_cash_payment"}

\* the application-level pre-check: an active record already holds the receipt
ReceiptInUse(rs, receipt_number) ==
    \E i \in Active(rs) : rs[i].receipt_number = receipt_number

cash_start(rs, c) ==
    LET receipt_number == StripReceipt(c.receipt_number) IN
    IF receipt_number = <<>>
    THEN {Result(rs, Raise(c, 400, "Receipt/reference number is required"))}
    ELSE IF c.requirement \notin Requirements
    THEN {Result(rs, Raise(c, 400, "Invalid requirement"))}
    ELSE IF c.amount <= 0
    THEN {Result(rs, Raise(c, 400, "Amount must be greater than 0"))}
    ELSE IF ReceiptInUse(rs, receipt_number)
    THEN {Result(rs, Raise(c, 409, "Receipt/reference number already used"))}
    ELSE {Result(rs, [c EXCEPT !.pc = "checked", !.receipt_number = receipt_number])}

\* the rows the membership query matches; first() returns one of them
CashTargets(rs, c) ==
    {i \in Active(rs) : rs[i].user_id = c.user /\ rs[i].requirement = c.requirement}

\* checks on the locked row that do not look at its payment method
cash_locked_AnyMethod(rs, c, i) ==
    IF rs[i].payment_status = "Paid"
    THEN Result(rs, Raise(c, 409, "Membership is already paid"))
    ELSE Result(rs, [c EXCEPT !.pc = "locked", !.mid = i, !.snap = rs[i]])

\* the checks made on the row the session holds locked
cash_locked(rs, c, i) ==
    IF rs[i].payment_status = "Paid"
    THEN Result(rs, Raise(c, 409, "Membership is already paid"))
    ELSE IF rs[i].payment_method \notin {NULL, "cash"}
    THEN Result(rs, Raise(c, 409, "Membership is not marked as cash payment"))
    ELSE Result(rs, [c EXCEPT !.pc = "locked", !.mid = i, !.snap = rs[i]])

\* SELECT ... FOR UPDATE: waits while another session holds the row locked
\* (held), and then reads the row as committed
cash_lock(rs, c, held) ==
    IF CashTargets(rs, c) = {}
    THEN {Result(rs, Raise(c, 404, "Membership record not found for user/semester"))}
    ELSE {cash_locked(rs, c, i) : i \in CashTargets(rs, c) \ held}

\* cash_payments.py: verified_at, payment_date and approval_date = now_manila
officer_cash_payment_assign(c) ==
    [amount |-> c.amount, payment_method |-> "cash",
     receipt_number |-> c.receipt_number, payment_status |-> "Paid",
     status |-> "Clear", verified_by |-> c.officer, verified_at |-> Now,
     payment_date |-> Now, approval_date |-> Now,
     approved_by |-> OfficerName[c.officer], denial_reason |-> NULL]

\* membership.py: no assignment to payment_date
officer_confirm_cash_payment_assign(c) ==
    [amount |-> c.amount, payment_method |-> "cash",
     receipt_number |-> c.receipt_number, payment_status |-> "Paid",
     status |-> "Clear", verified_by |-> c.officer, verified_at |-> Now,
     approval_date |-> Now,
     approved_by |-> OfficerName[c.officer], denial_reason |-> NULL]

cash_assign(c) ==
    IF c.op = "officer_cash_payment" THEN officer_cash_payment_assign(c)
    ELSE officer_confirm_cash_payment_assign(c)

\* a confirmation that commits the payment state before it stores the receipt
cash_commit_TwoCommits(rs, c) ==
    LET paid == Updated(rs, c.mid, c.snap, [payment_status |-> "Paid", status |-> "Clear"])
        new == Updated(rs, c.mid, c.snap, cash_assign(c)) IN
    IF CommitOK(new) THEN {Result(new, Return(c))}
    ELSE {Result(paid, Raise(c, 500, "Failed to confirm cash payment"))}

\* leaving "with db.begin()": flush and COMMIT, or roll back on IntegrityError
\* (except Exception -> 500)
cash_commit(rs, c) ==
    LET new == Updated(rs, c.mid, c.snap, cash_assign(c)) IN
    IF CommitOK(new) THEN {Result(new, Return(c))}
    ELSE {Result(rs, Raise(c, 500, "Failed to confirm cash payment"))}

(***************************************************************************)
(* officer_verify_membership (verify)                                      *)
(***************************************************************************)
verify_start(rs, c) ==
    IF c.action \notin {"approve", "deny"}
    THEN {Result(rs, Raise(c, 400, "Invalid action"))}
    ELSE IF c.mid \notin Active(rs)
    THEN {Result(rs, Raise(c, 404, "Membership record not found"))}
    ELSE {Result(rs, [c EXCEPT !.pc = "queried", !.snap = rs[c.mid]])}

\* an approval that drops the receipt image as a denial does
approve_assign_DropsReceipt(c) ==
    [payment_status |-> "Paid", status |-> "Clear", approval_date |-> Now,
     approved_by |-> c.officer_name, denial_reason |-> NULL, receipt_path |-> NULL]

approve_assign(c) ==
    [payment_status |-> "Paid", status |-> "Clear", approval_date |-> Now,
     approved_by |-> c.officer_name, denial_reason |-> NULL]

\* a denial that also takes the receipt number off the record
deny_assign_ClearsReceiptNumber(c) ==
    [payment_status |-> "Not Paid", status |-> "Not Yet Cleared",
     receipt_path |-> NULL, payment_method |-> NULL, receipt_number |-> NullRef,
     denial_reason |-> c.denial_reason, payment_date |-> NULL]

\* a denial that leaves the payment method on the record
deny_assign_KeepsMethod(c) ==
    [payment_status |-> "Not Paid", status |-> "Not Yet Cleared",
     receipt_path |-> NULL,
     denial_reason |-> c.denial_reason, payment_date |-> NULL]

deny_assign(c) ==
    [payment_status |-> "Not Paid", status |-> "Not Yet Cleared",
     receipt_path |-> NULL, payment_method |-> NULL,
     denial_reason |-> c.denial_reason, payment_date |-> NULL]

verify_assign(c) == IF c.action = "approve" THEN approve_assign(c) ELSE deny_assign(c)

verify_commit(rs, c, held) ==
    LET new == Updated(rs, c.mid, c.snap, verify_assign(c)) IN
    IF c.mid \in held /\ IsDirty(c.snap, verify_assign(c)) THEN {}
    ELSE IF CommitOK(new) THEN {Result(new, Return(c))}
    ELSE {Result(rs, Raise(c, 500, "Internal Server Error"))}


(***************************************************************************)
(* officer_create_membership: one INSERT, no look-up of existing records.  *)
(***************************************************************************)
officer_create_membership_run(rs, c) ==
    IF c.user \notin Users
    THEN {Result(rs, Raise(c, 404, "User not found"))}
    ELSE IF c.requirement \notin Requirements
    THEN {Result(rs, Raise(c, 500, "Internal Server Error"))}
    ELSE {Result(Append(rs, NewClearance(c.user, c.requirement, c.amount,
                                         c.payment_status, "")),
                 Return(c))}

(***************************************************************************)
(* create_officer_requirement (create_requirement): the fan-out.           *)
(***************************************************************************)
HasActive(rs, user, requirement) ==
    \E i \in Active(rs) : rs[i].user_id = user /\ rs[i].requirement = requirement

\* a loop that creates a record for every user
Uncovered_AllUsers(rs, requirement) == Users

\* the users of the loop for which "existing" is None
Uncovered(rs, requirement) == {u \in Users : ~HasActive(rs, u, requirement)}

\* a fan-out that does not look at created_records before it commits
create_requirement_start_NoEmptyCheck(rs, c) ==
    IF c.requirement \notin Requirements
    THEN {Result(rs, Raise(c, 400, "Invalid requirement"))}
    ELSE IF c.amount <= 0
    THEN {Result(rs, Raise(c, 400, "Amount must be greater than 0"))}
    ELSE {Result(rs, [c EXCEPT !.pc = "scanned", !.todo = Uncovered(rs, c.requirement)])}

create_requirement_start(rs, c) ==
    IF c.requirement \notin Requirements
    THEN {Result(rs, Raise(c, 400, "Invalid requirement"))}
    ELSE IF c.amount <= 0
    THEN {Result(rs, Raise(c, 400, "Amount must be greater than 0"))}
    ELSE IF Uncovered(rs, c.requirement) = {}
    THEN {Result(rs, Raise(c, 400, "Requirement already exists for all users"))}
    ELSE {Result(rs, [c EXCEPT !.pc = "scanned", !.todo = Uncovered(rs, c.requirement)])}

\* the INSERTs of created_records, in the order of the loop over users
RECURSIVE InsertFor(_, _, _, _)
InsertFor(rs, todo, requirement, amount) ==
    IF todo = {} THEN rs
    ELSE LET u == CHOOSE x \in todo : \A y \in todo : x <= y IN
         InsertFor(Append(rs, NewClearance(u, requirement, amount, "Not Paid", NULL)),
                   todo \ {u}, requirement, amount)

create_requirement_commit(rs, c) ==
    LET new == InsertFor(rs, c.todo, c.requirement, c.amount) IN
    IF CommitOK(new) THEN {Result(new, Return(c))}
    ELSE {Result(rs, Raise(c, 500, "Failed to create requirement"))}

(***************************************************************************)
(* update_officer_requirement (amount) and delete_officer_requirement      *)
(* (archive): one UPDATE per active record of the requirement.             *)
(***************************************************************************)
RequirementRecords(rs, requirement) ==
    {i \in Active(rs) : rs[i].requirement = requirement}

UpdatedAll(rs, ids, asg) ==
    [i \in Ids(rs) |-> IF i \in ids THEN Flushed(rs[i], rs[i], asg) ELSE rs[i]]

\* the payload is {"amount": c.amount}, or {} when c.amount = 0
update_officer_requirement_run(rs, c, held) ==
    LET records == RequirementRecords(rs, c.requirement)
        asg == IF c.amount > 0 THEN [amount |-> c.amount] ELSE [amount |-> 0]
        ids == IF c.amount > 0 THEN records ELSE {}
    IN  IF records = {}
        THEN {Result(rs, Raise(c, 404, "Requirement not found"))}
        ELSE IF \E i \in ids : i \in held /\ IsDirty(rs[i], asg) THEN {}
        ELSE {Result(UpdatedAll(rs, ids, asg), Return(c))}

delete_officer_requirement_run(rs, c, held) ==
    LET records == RequirementRecords(rs, c.requirement) IN
    IF records = {}
    THEN {Result(rs, Raise(c, 404, "Requirement not found"))}
    ELSE IF records \cap held # {} THEN {}
    ELSE {Result(UpdatedAll(rs, records, [archived |-> TRUE]), Return(c))}


(***************************************************************************)
(* One database statement group of a request: the handler's code from one  *)
(* point where the session talks to the database to the next.  held is the *)
(* set of rows other sessions hold locked FOR UPDATE; a statement that     *)
(* needs such a row has no outcome until the lock is released.             *)
(***************************************************************************)
Stage(rs, c, held) ==
    CASE c.op = "update_receipt" /\ c.pc = "start" -> update_receipt_start(rs, c)
      [] c.op = "update_receipt" /\ c.pc = "queried" -> update_receipt_check(rs, c)
      [] c.op = "update_receipt" /\ c.pc = "checked" -> update_receipt_commit(rs, c, held)
      [] c.op = "select_cash_payment" /\ c.pc = "start" -> select_cash_start(rs, c)
      [] c.op = "select_cash_payment" /\ c.pc = "queried" -> select_cash_commit(rs, c, held)
      [] c.op \in CashOps /\ c.pc = "start" -> cash_start(rs, c)
      [] c.op \in CashOps /\ c.pc = "checked" -> cash_lock(rs, c, held)
      [] c.op \in CashOps /\ c.pc = "locked" -> cash_commit(rs, c)
      [] c.op = "officer_verify_membership" /\ c.pc = "start" -> verify_start(rs, c)
      [] c.op = "officer_verify_membership" /\ c.pc = "queried" -> verify_commit(rs, c, held)
      [] c.op = "officer_create_membership" -> officer_create_membership_run(rs, c)
      [] c.op = "create_officer_requirement" /\ c.pc = "start" -> create_requirement_start(rs, c)
      [] c.op = "create_officer_requirement" /\ c.pc = "scanned" -> create_requirement_commit(rs, c)
      [] c.op = "update_officer_requirement" -> update_officer_requirement_run(rs, c, held)
      [] c.op = "delete_officer_requirement" -> delete_officer_requirement_run(rs, c, held)
      [] OTHER -> {}

\* a request served with no other request in flight: every stage in turn
RECURSIVE RunAll(_, _)
RunAll(rs, c) ==
    IF c.pc = "done" THEN {Result(rs, c)}
    ELSE UNION {RunAll(o.rows, o.c) : o \in Stage(rs, c, {})}

\* the rows sessions other than p hold locked
Held(p) == {call[q].mid : q \in {x \in Sessions \ {p} : call[x].pc = "locked"}}

\* the table a request leaves (requests served alone have one outcome)
After(rs, c) == (CHOOSE o \in RunAll(rs, c) : TRUE).rows

FirstRequirement == "1st Semester Membership"

\* the records of the first requirement, one per user
FannedOut == InsertFor(<<>>, Users, FirstRequirement, Fee)

\* user u has submitted a gcash receipt for record u and an officer denied it
SubmittedAndDenied(rs, u) ==
    After(After(rs, [Idle EXCEPT !.op = "update_receipt", !.pc = "start", !.user = u,
                                 !.mid = u, !.payment_type = TypeGcash,
                                 !.reference_number = RefG1]),
          [Idle EXCEPT !.op = "officer_verify_membership", !.pc = "start", !.mid = u,
                       !.action = "deny", !.denial_reason = "blurry",
                       !.officer_name = "Ann"])

\* both users, one after the other, had the same reference denied
DeniedTable == SubmittedAndDenied(SubmittedAndDenied(FannedOut, 1), 2)

\* an officer has created a second record for user 1 by hand
DuplicateTable ==
    After(FannedOut, [Idle EXCEPT !.op = "officer_create_membership", !.pc = "start",
                                  !.user = 1, !.requirement = FirstRequirement,
                                  !.amount = Fee, !.payment_status = "Not Paid"])

\* the table is empty, or an officer has already defined one requirement, or
\* the receipts submitted for it have been denied
InitTables ==
    {<<>>, FannedOut, DeniedTable}

Init ==
    /\ rows \in InitTables
    /\ call = [p \in Sessions |-> Idle]
    /\ ncalls = 0
    /\ attendance = {}
    /\ certificates = {}
    /\ archived_events = {}
    /\ report = NoReport
    /\ participants = Participants
    /\ runs = [p \in Sessions |-> NoRun]

\* session p serves the request c0 from its first statement to its response
Serve(p, c0) ==
    /\ call[p].pc \in {"idle", "done"}
    /\ ncalls < MaxCalls
    /\ \E o \in RunAll(rows, c0) :
        /\ Len(o.rows) <= MaxRows
        /\ rows' = o.rows
        /\ call' = [call EXCEPT ![p] = o.c]
    /\ ncalls' = ncalls + 1
    /\ UNCHANGED certvars

\* session p receives the request c0 and runs it up to its first statement
Begin(p, c0) ==
    /\ call[p].pc = "idle"
    /\ ncalls < MaxConcCalls
    /\ \E o \in Stage(rows, c0, Held(p)) :
        /\ Len(o.rows) <= MaxRows
        /\ rows' = o.rows
        /\ call' = [call EXCEPT ![p] = o.c]
    /\ ncalls' = ncalls + 1
    /\ UNCHANGED certvars

Request(p, c0, atomic) == IF atomic THEN Serve(p, c0) ELSE Begin(p, c0)

\* session p runs the next statement group of its request
Continue(p) ==
    /\ call[p].pc \notin {"idle", "done"}
    /\ \E o \in Stage(rows, call[p], Held(p)) :
        /\ Len(o.rows) <= MaxRows
        /\ rows' = o.rows
        /\ call' = [call EXCEPT ![p] = o.c]
    /\ UNCHANGED <<ncalls, certvars>>

\* the response is sent; the session is free for the next request
Finish(p) ==
    /\ call[p].pc = "done"
    /\ call' = [call EXCEPT ![p] = Idle]
    /\ UNCHANGED <<rows, ncalls, certvars>>

RowIdInputs == 1..MaxRows

\* the (user_id, requirement, amount, receipt_number) payloads of the cash
\* endpoints: the well-formed ones and one for each way a payload is refused
CashPayloads ==
    {<<u, FirstRequirement, 100, n>> :
        u \in Users, n \in {ReceiptR1, ReceiptR1Sp, ReceiptR2}}
    \cup {<<1, "2nd Semester Membership", 100, ReceiptR1>>,
          <<3, "1st Semester Membership", 100, ReceiptR1>>,
          <<1, "3rd Semester Membership", 100, ReceiptR1>>,
          <<1, "1st Semester Membership", 0, ReceiptR1>>,
          <<1, "1st Semester Membership", 100, ReceiptBlank>>}

\* the payloads the validation accepts
AcceptedPayloads ==
    {pl \in ReceiptPayloads : /\ NormPaymentType(pl[1]) \in {"gcash", "paymaya"}
                              /\ ValidReference(NormPaymentType(pl[1]), pl[2])}

\* (user, membership id, payload): every accepted payload for every user and
\* record, and every refused payload once
UpdateReceiptInputs ==
    {<<u, mid, pl>> : u \in Users, mid \in RowIdInputs, pl \in AcceptedPayloads}
    \cup {<<1, 1, pl>> : pl \in ReceiptPayloads \ AcceptedPayloads}

update_receipt(p, atomic) ==
    \E arg \in UpdateReceiptInputs :
        /\ Request(p, [Idle EXCEPT !.op = "update_receipt", !.pc = "start", !.user = arg[1],
                                !.mid = arg[2], !.payment_type = arg[3][1],
                                !.reference_number = arg[3][2]], atomic)

select_cash_payment(p, atomic) ==
    \E user \in Users, mid \in RowIdInputs :
        /\ Request(p, [Idle EXCEPT !.op = "select_cash_payment", !.pc = "start",
                                !.user = user, !.mid = mid], atomic)

officer_cash_payment(p, atomic) ==
    \E pl \in CashPayloads, o \in Officers :
        /\ Request(p, [Idle EXCEPT !.op = "officer_cash_payment", !.pc = "start",
                                !.user = pl[1], !.requirement = pl[2], !.amount = pl[3],
                                !.receipt_number = pl[4], !.officer = o], atomic)

officer_confirm_cash_payment(p, atomic) ==
    \E pl \in CashPayloads, o \in Officers :
        /\ Request(p, [Idle EXCEPT !.op = "officer_confirm_cash_payment", !.pc = "start",
                                !.user = pl[1], !.requirement = pl[2], !.amount = pl[3],
                                !.receipt_number = pl[4], !.officer = o], atomic)

\* (membership id, action, denial_reason): an approval, a denial with and
\* without a reason, and an action the endpoint refuses
VerifyInputs ==
    {<<mid, "approve", NULL>> : mid \in RowIdInputs}
    \cup {<<mid, "deny", reason>> : mid \in RowIdInputs, reason \in {NULL, "blurry"}}
    \cup {<<1, "reject", NULL>>}

officer_verify_membership(p, atomic) ==
    \E arg \in VerifyInputs :
        /\ Request(p, [Idle EXCEPT !.op = "officer_verify_membership", !.pc = "start",
                                !.mid = arg[1], !.action = arg[2],
                                !.denial_reason = arg[3], !.officer_name = "Ann"], atomic)

\* (user_id, requirement, payment_status) of the posted record
CreateMembershipInputs ==
    {<<u, FirstRequirement, ps>> : u \in UserIdInputs, ps \in CreateStatusInputs}
    \cup {<<1, r, "Not Paid">> : r \in RequirementInputs}

officer_create_membership(p, atomic) ==
    \E arg \in CreateMembershipInputs :
        /\ Request(p, [Idle EXCEPT !.op = "officer_create_membership", !.pc = "start",
                                !.user = arg[1], !.requirement = arg[2], !.amount = Fee,
                                !.payment_status = arg[3]], atomic)

create_officer_requirement(p, atomic) ==
    \E r \in RequirementInputs, a \in {0, Fee} :
        /\ Request(p, [Idle EXCEPT !.op = "create_officer_requirement", !.pc = "start",
                                !.requirement = r, !.amount = a], atomic)

update_officer_requirement(p, atomic) ==
    \E r \in RequirementInputs, a \in AmountInputs :
        /\ Request(p, [Idle EXCEPT !.op = "update_officer_requirement", !.pc = "start",
                                !.requirement = r, !.amount = a], atomic)

delete_officer_requirement(p, atomic) ==
    \E r \in RequirementInputs :
        /\ Request(p, [Idle EXCEPT !.op = "delete_officer_requirement", !.pc = "start",
                                !.requirement = r], atomic)

Handler(p, atomic) ==
    \/ update_receipt(p, atomic)
    \/ select_cash_payment(p, atomic)
    \/ officer_cash_payment(p, atomic)
    \/ officer_confirm_cash_payment(p, atomic)
    \/ officer_verify_membership(p, atomic)
    \/ officer_create_membership(p, atomic)
    \/ create_officer_requirement(p, atomic)
    \/ update_officer_requirement(p, atomic)
    \/ delete_officer_requirement(p, atomic)

\* requests arrive one after the other
Next == Handler("s1", TRUE)

Spec == Init /\ [][Next]_vars

\* two sessions serve requests at the same time
NextConc == \E p \in Sessions : Handler(p, FALSE) \/ Continue(p) \/ Finish(p)

SpecConc == Init /\ [][NextConc]_vars

\* two officers each confirm one cash payment at the same time
CashTables == {FannedOut, DeniedTable, DuplicateTable}

InitCash ==
    /\ rows \in CashTables
    /\ call = [p \in Sessions |-> Idle]
    /\ ncalls = 0
    /\ attendance = {}
    /\ certificates = {}
    /\ archived_events = {}
    /\ report = NoReport
    /\ participants = Participants
    /\ runs = [p \in Sessions |-> NoRun]

NextCash ==
    \E p \in Sessions :
        \/ officer_cash_payment(p, FALSE)
        \/ officer_confirm_cash_payment(p, FALSE)
        \/ Continue(p)

SpecCash == InitCash /\ [][NextCash]_vars


\* an officer has confirmed user 2's cash payment with receipt R1 and has then
\* archived the requirement
ArchivedTable ==
    After(After(FannedOut, [Idle EXCEPT !.op = "officer_cash_payment", !.pc = "start",
                                        !.user = 2, !.requirement = FirstRequirement,
                                        !.amount = 100, !.receipt_number = ReceiptR1,
                                        !.officer = 1]),
          [Idle EXCEPT !.op = "delete_officer_requirement", !.pc = "start",
                       !.requirement = FirstRequirement])

InitArchived ==
    /\ rows = ArchivedTable
    /\ call = [p \in Sessions |-> Idle]
    /\ ncalls = 0
    /\ attendance = {}
    /\ certificates = {}
    /\ archived_events = {}
    /\ report = NoReport
    /\ participants = Participants
    /\ runs = [p \in Sessions |-> NoRun]

\* requests one after the other, after a requirement has been archived
SpecArchived == InitArchived /\ [][Next]_vars

(***************************************************************************)
(* Events, attendance and certificates (routes/events.py,                  *)
(* routes/certificates.py, certificate_service.py).                        *)
(***************************************************************************)
\* an event id no events row carries
EventIdInputs == Events \cup {3}
\* the events with a feedback_link
FeedbackLinks == {1}
\* the events with a CertificateTemplate row that is not archived
Templates == {1}

\* an event_attendance row: checked_in_at takes its column default
EventAttendance(event_id, user_id) ==
    [event_id |-> event_id, user_id |-> user_id, checked_in_at |-> Now,
     evaluation_completed |-> FALSE]

\* a certificates row
ECertificate(user_id, event_id, certificate_url, thumbnail_url, certificate_code) ==
    [user_id |-> user_id, event_id |-> event_id, certificate_url |-> certificate_url,
     thumbnail_url |-> thumbnail_url, file_name |-> "certificate.pdf",
     issued_date |-> Now, certificate_code |-> certificate_code]

Response(op, event_id, user_id, res, detail) ==
    [NoReport EXCEPT !.op = op, !.event_id = event_id, !.user_id = user_id,
                     !.res = res, !.detail = detail]

AttendanceOf(att, event_id, user_id) ==
    {a \in att : a.event_id = event_id /\ a.user_id = user_id}

CertificateOf(certs, event_id, user_id) ==
    {c \in certs : c.event_id = event_id /\ c.user_id = user_id}

\* no users at all are subtracted from the attendance
existing_cert_user_ids_None(certs, event_id) == {}

\* get_eligible_users: the users of the certificates of the event
existing_cert_user_ids(certs, event_id) ==
    {c.user_id : c \in {x \in certs : x.event_id = event_id}}

\* get_eligible_users: the users of the attendance rows the filter keeps
eligible_user_ids(att, event_id) ==
    {a.user_id : a \in {x \in att : /\ x.event_id = event_id
                                    /\ (x.checked_in_at # NULL \/ x.evaluation_completed)}}

\* an eligibility that looks at the attendance alone
get_eligible_users_Attended(att, certs, event_id) ==
    eligible_user_ids(att, event_id) \cap Users

\* the ids of the users get_eligible_users returns (the event is not archived)
get_eligible_users(att, certs, event_id) ==
    (eligible_user_ids(att, event_id) \ existing_cert_user_ids(certs, event_id)) \cap Users

\* the loop "while the code is in use: generate another one", over four of
\* the codes secrets.choice can produce
generate_certificate_code(certs) ==
    CHOOSE code \in {"SPECS-A", "SPECS-B", "SPECS-C", "SPECS-D"} :
        \A c \in certs : c.certificate_code # code

\* the names bound in the module namespace of routes/certificates.py
ModuleNames ==
    {"logging", "os", "uuid", "zipfile", "datetime", "timezone", "BytesIO", "List",
     "Optional", "boto3", "Config", "APIRouter", "Depends", "HTTPException",
     "UploadFile", "File", "Form", "StreamingResponse", "JSONResponse", "Session",
     "SessionLocal", "models", "schemas", "get_current_user", "get_current_officer",
     "generate_certificate_code", "download_template", "render_certificate",
     "get_eligible_users", "generate_certificate_filename", "certificate_to_pdf_bytes"}

\* the per-user steps that call out of the handler, in the order of the loop
\* body, and the outcome of the body: the step that raised, or "ok"
Outcomes == {"ok", "render_certificate", "certificate_to_pdf_bytes", "upload_certificate_to_r2"}

\* UNIQUE(user_id, event_id) and UNIQUE(certificate_code) of certificates
UqCertificateOK(certs) ==
    \A c, d \in certs :
        c # d => /\ ~(c.user_id = d.user_id /\ c.event_id = d.event_id)
                 /\ (c.certificate_code = NULL \/ c.certificate_code # d.certificate_code)

\* a loop body that commits the row first and uploads the artifact after it
generate_one_RowBeforeUpload(certs, event_id, user_id, outcome) ==
    LET cert_code == generate_certificate_code(certs)
        new == certs \cup {ECertificate(user_id, event_id, "generated", NULL, cert_code)}
    IN  IF outcome \in {"render_certificate", "certificate_to_pdf_bytes"}
        THEN [certificates |-> certs, error |-> outcome]
        ELSE IF outcome = "upload_certificate_to_r2"
        THEN [certificates |-> new, error |-> outcome]
        ELSE [certificates |-> new, error |-> NULL]

\* one pass of the loop body for user_id: the table after it and str(e) of the
\* exception it caught (NULL when it committed)
generate_one(certs, event_id, user_id, outcome) ==
    LET cert_code == generate_certificate_code(certs)
        new == certs \cup {ECertificate(user_id, event_id, "generated", NULL, cert_code)}
    IN  IF outcome # "ok"
        THEN [certificates |-> certs, error |-> outcome]
        ELSE IF "timedelta" \notin ModuleNames
        THEN [certificates |-> certs, error |-> "name 'timedelta' is not defined"]
        ELSE IF ~UqCertificateOK(new)
        THEN [certificates |-> certs, error |-> "IntegrityError"]
        ELSE [certificates |-> new, error |-> NULL]

\* for user in eligible_users: the table, the counters and failed_users
RECURSIVE generate_loop(_, _, _, _, _)
generate_loop(certs, event_id, todo, outcome, failed_users) ==
    IF todo = {}
    THEN [certificates |-> certs, failed_users |-> failed_users]
    ELSE LET u == CHOOSE x \in todo : \A y \in todo : x <= y
             r == generate_one(certs, event_id, u, outcome[u])
         IN  generate_loop(r.certificates, event_id, todo \ {u}, outcome,
                           IF r.error = NULL THEN failed_users
                           ELSE failed_users \cup {[user_id |-> u, error |-> r.error]})

\* "existing_certificate" is updated, or a new row is added
Upsert(certs, event_id, user_id, certificate_url) ==
    IF CertificateOf(certs, event_id, user_id) # {}
    THEN {IF c.event_id = event_id /\ c.user_id = user_id
          THEN [c EXCEPT !.certificate_url = certificate_url, !.thumbnail_url = "thumbnail",
                         !.issued_date = Now]
          ELSE c : c \in certs}
    ELSE certs \cup {ECertificate(user_id, event_id, certificate_url, "thumbnail", NULL)}

RECURSIVE UpsertAll(_, _, _, _)
UpsertAll(certs, event_id, todo, certificate_url) ==
    IF todo = {} THEN certs
    ELSE LET u == CHOOSE x \in todo : TRUE IN
         UpsertAll(Upsert(certs, event_id, u, certificate_url), event_id, todo \ {u},
                   certificate_url)

\* a request to these routes: its response and what it leaves unchanged
CertRequest(r) ==
    /\ ncalls < MaxCertCalls
    /\ ncalls' = ncalls + 1
    /\ report' = [r EXCEPT !.previous = [op |-> report.op, event_id |-> report.event_id,
                                         res |-> report.res]]
    /\ UNCHANGED <<rows, call, runs>>

check_in_participant ==
    \E event_id \in EventIdInputs, user_id \in UserIdInputs :
        LET op == "check_in_participant" IN
        /\ UNCHANGED <<certificates, archived_events, participants>>
        /\ IF event_id \notin Events
           THEN /\ CertRequest(Response(op, event_id, user_id, 404, "Event not found"))
                /\ UNCHANGED attendance
           ELSE IF user_id \notin participants[event_id]
           THEN /\ CertRequest(Response(op, event_id, user_id, 400,
                                        "User is not registered for this event"))
                /\ UNCHANGED attendance
           ELSE IF AttendanceOf(attendance, event_id, user_id) # {}
           THEN /\ CertRequest(Response(op, event_id, user_id, 200, "Already checked in"))
                /\ UNCHANGED attendance
           ELSE /\ CertRequest(Response(op, event_id, user_id, 200, "Check-in successful"))
                /\ attendance' = attendance \cup {EventAttendance(event_id, user_id)}

remove_check_in ==
    \E event_id \in EventIdInputs, user_id \in UserIdInputs :
        LET op == "remove_check_in" IN
        /\ UNCHANGED <<certificates, archived_events, participants>>
        /\ IF AttendanceOf(attendance, event_id, user_id) = {}
           THEN /\ CertRequest(Response(op, event_id, user_id, 404,
                                        "Check-in record not found"))
                /\ UNCHANGED attendance
           ELSE /\ CertRequest(Response(op, event_id, user_id, 200,
                                        "Check-in removed successfully"))
                /\ attendance' = attendance \ AttendanceOf(attendance, event_id, user_id)

complete_evaluation ==
    \E event_id \in EventIdInputs, user_id \in Users :
        LET op == "complete_evaluation" IN
        /\ UNCHANGED <<certificates, archived_events, participants>>
        /\ IF event_id \notin Events
           THEN /\ CertRequest(Response(op, event_id, user_id, 404, "Event not found"))
                /\ UNCHANGED attendance
           ELSE IF event_id \notin FeedbackLinks
           THEN /\ CertRequest(Response(op, event_id, user_id, 400,
                                        "This event has no evaluation form"))
                /\ UNCHANGED attendance
           ELSE IF AttendanceOf(attendance, event_id, user_id) = {}
           THEN /\ CertRequest(Response(op, event_id, user_id, 400,
                                        "You must be checked in to complete the evaluation"))
                /\ UNCHANGED attendance
           ELSE /\ CertRequest(Response(op, event_id, user_id, 200, "Evaluation completed"))
                /\ attendance' =
                       {IF a.event_id = event_id /\ a.user_id = user_id
                        THEN [a EXCEPT !.evaluation_completed = TRUE] ELSE a :
                        a \in attendance}

\* registration_status: what the clock and the registration dates give
join_event ==
    \E event_id \in EventIdInputs, user_id \in Users,
       registration_status \in {"not_started", "open", "closed"} :
        LET op == "join_event" IN
        /\ UNCHANGED <<attendance, certificates, archived_events>>
        /\ IF event_id \notin Events
           THEN /\ CertRequest(Response(op, event_id, user_id, 404, "Event not found"))
                /\ UNCHANGED participants
           ELSE IF registration_status = "not_started"
           THEN /\ CertRequest(Response(op, event_id, user_id, 403,
                                        "Registration for this event has not started yet"))
                /\ UNCHANGED participants
           ELSE IF registration_status = "closed"
           THEN /\ CertRequest(Response(op, event_id, user_id, 403,
                                        "Registration for this event has ended"))
                /\ UNCHANGED participants
           ELSE IF user_id \in participants[event_id]
           THEN /\ CertRequest(Response(op, event_id, user_id, 200,
                                        "Already participating in this event"))
                /\ UNCHANGED participants
           ELSE /\ CertRequest(Response(op, event_id, user_id, 200,
                                        "Successfully joined the event"))
                /\ participants' = [participants EXCEPT ![event_id] = @ \cup {user_id}]

leave_event ==
    \E event_id \in EventIdInputs, user_id \in Users,
       registration_status \in {"not_started", "open", "closed"} :
        LET op == "leave_event" IN
        /\ UNCHANGED <<attendance, certificates, archived_events>>
        /\ IF event_id \notin Events
           THEN /\ CertRequest(Response(op, event_id, user_id, 404, "Event not found"))
                /\ UNCHANGED participants
           ELSE IF registration_status = "closed"
           THEN /\ CertRequest(Response(op, event_id, user_id, 403,
                                        "Registration for this event has ended, cannot leave now"))
                /\ UNCHANGED participants
           ELSE IF user_id \notin participants[event_id]
           THEN /\ CertRequest(Response(op, event_id, user_id, 200,
                                        "You are not participating in this event"))
                /\ UNCHANGED participants
           ELSE /\ CertRequest(Response(op, event_id, user_id, 200,
                                        "Successfully left the event"))
                /\ participants' = [participants EXCEPT ![event_id] = @ \ {user_id}]

admin_delete_event ==
    \E event_id \in EventIdInputs :
        LET op == "admin_delete_event" IN
        /\ UNCHANGED <<attendance, certificates, participants>>
        /\ IF event_id \notin Events
           THEN /\ CertRequest(Response(op, event_id, 0, 404, "Event not found"))
                /\ UNCHANGED archived_events
           ELSE /\ CertRequest(Response(op, event_id, 0, 200, "Event archived successfully"))
                /\ archived_events' = archived_events \cup {event_id}

\* upload_to_r2 stores the file (stored) or raises
upload_e_certificate ==
    \E event_id \in EventIdInputs, user_id \in UserIdInputs, stored \in BOOLEAN :
        LET op == "upload_e_certificate" IN
        /\ UNCHANGED <<attendance, archived_events, participants>>
        /\ IF event_id \notin Events
           THEN /\ CertRequest(Response(op, event_id, user_id, 404, "Event not found"))
                /\ UNCHANGED certificates
           ELSE IF user_id \notin Users
           THEN /\ CertRequest(Response(op, event_id, user_id, 404, "User not found"))
                /\ UNCHANGED certificates
           ELSE IF user_id \notin participants[event_id]
           THEN /\ CertRequest(Response(op, event_id, user_id, 403,
                                        "User is not a participant in this event"))
                /\ UNCHANGED certificates
           ELSE IF ~stored
           THEN /\ CertRequest(Response(op, event_id, user_id, 500, "Failed to upload file to R2"))
                /\ UNCHANGED certificates
           ELSE /\ CertRequest(Response(op, event_id, user_id, 200, NULL))
                /\ certificates' = Upsert(certificates, event_id, user_id, "manual")

upload_batch_certificates ==
    \E event_id \in EventIdInputs, stored \in BOOLEAN :
        LET op == "upload_batch_certificates"
            present == {a.user_id : a \in {x \in attendance : x.event_id = event_id}}
        IN
        /\ UNCHANGED <<attendance, archived_events, participants>>
        /\ IF event_id \notin Events
           THEN /\ CertRequest(Response(op, event_id, 0, 404, "Event not found"))
                /\ UNCHANGED certificates
           ELSE IF present = {}
           THEN /\ CertRequest(Response(op, event_id, 0, 400,
                                        "No eligible participants (Present) found for this event"))
                /\ UNCHANGED certificates
           ELSE IF ~stored
           THEN /\ CertRequest(Response(op, event_id, 0, 500, "Failed to upload file to R2"))
                /\ UNCHANGED certificates
           ELSE /\ CertRequest([Response(op, event_id, 0, 200,
                                         "Batch certificates distributed successfully")
                                EXCEPT !.eligible_user_ids = present])
                /\ certificates' = UpsertAll(certificates, event_id, present, "batch")

get_eligible_count ==
    \E event_id \in EventIdInputs :
        LET op == "get_eligible_count" IN
        /\ UNCHANGED <<attendance, certificates, archived_events, participants>>
        /\ IF event_id \notin Events \ archived_events
           THEN CertRequest(Response(op, event_id, 0, 400, "Event not found or is archived"))
           ELSE CertRequest([Response(op, event_id, 0, 200, NULL) EXCEPT
                                 !.eligible_user_ids =
                                     get_eligible_users(attendance, certificates, event_id)])

\* download_template loads the image (loaded) or raises; outcome: what each
\* eligible user's pass of the loop body meets
generate_bulk_certificates ==
    \E event_id \in EventIdInputs, loaded \in BOOLEAN :
        LET op == "generate_bulk_certificates"
            eligible_users == get_eligible_users(attendance, certificates, event_id)
        IN
        /\ UNCHANGED <<attendance, archived_events, participants>>
        /\ IF event_id \notin Events \ archived_events
           THEN /\ CertRequest(Response(op, event_id, 0, 404, "Event not found or is archived"))
                /\ UNCHANGED certificates
           ELSE IF event_id \notin Templates
           THEN /\ CertRequest(Response(op, event_id, 0, 400,
                                        "No active certificate template found for this event"))
                /\ UNCHANGED certificates
           ELSE IF eligible_users = {}
           THEN /\ CertRequest(Response(op, event_id, 0, 200,
                                        "No eligible users found for certificate generation"))
                /\ UNCHANGED certificates
           ELSE IF ~loaded
           THEN /\ CertRequest(Response(op, event_id, 0, 500,
                                        "Failed to load certificate template"))
                /\ UNCHANGED certificates
           ELSE \E outcome \in [eligible_users -> Outcomes] :
                    LET done == generate_loop(certificates, event_id, eligible_users,
                                              outcome, {})
                        failed == {f.user_id : f \in done.failed_users}
                    IN  /\ certificates' = done.certificates
                        /\ CertRequest([Response(op, event_id, 0, 200,
                                                 "Bulk certificate generation completed")
                                        EXCEPT !.eligible_user_ids = eligible_users,
                                               !.generated_count =
                                                   Cardinality(eligible_users \ failed),
                                               !.failed_count = Cardinality(failed),
                                               !.failed_users = done.failed_users,
                                               !.uploaded =
                                                   {u \in eligible_users : outcome[u] = "ok"}])

\* nobody has checked in yet, or every user has checked in at event 1
InitCert ==
    /\ rows = <<>>
    /\ call = [p \in Sessions |-> Idle]
    /\ ncalls = 0
    /\ attendance \in {{}, {EventAttendance(1, u) : u \in Users}}
    /\ certificates = {}
    /\ archived_events = {}
    /\ report = NoReport
    /\ participants = Participants
    /\ runs = [p \in Sessions |-> NoRun]

NextCert ==
    \/ join_event
    \/ leave_event
    \/ check_in_participant
    \/ remove_check_in
    \/ complete_evaluation
    \/ admin_delete_event
    \/ upload_e_certificate
    \/ upload_batch_certificates
    \/ get_eligible_count
    \/ generate_bulk_certificates

\* requests to the attendance and certificate routes, one after the other
SpecCert == InitCert /\ [][NextCert]_vars


\* the rows a lookup of a verification code can return (the route takes
\* the first)
verify_certificate(code) == {c \in certificates : c.certificate_code = code}

(***************************************************************************)
(* generate_bulk_certificates statement by statement: the checks before    *)
(* the loop, one pass of the loop body (which commits or rolls back), the  *)
(* return of the report. Two officers may run it at the same time.         *)
(***************************************************************************)
bulk_begin(p) ==
    \E event_id \in EventIdInputs, loaded \in BOOLEAN :
        LET eligible_users == get_eligible_users(attendance, certificates, event_id)
            res == IF event_id \notin Events \ archived_events THEN 404
                   ELSE IF event_id \notin Templates THEN 400
                   ELSE IF eligible_users = {} THEN 200
                   ELSE IF ~loaded THEN 500
                   ELSE 0
        IN  /\ runs[p].pc \in {"idle", "done"}
            /\ ncalls < MaxCertCalls
            /\ ncalls' = ncalls + 1
            /\ runs' = [runs EXCEPT ![p] =
                           IF res # 0
                           THEN [NoRun EXCEPT !.pc = "done", !.event_id = event_id,
                                              !.res = res]
                           ELSE [NoRun EXCEPT !.pc = "loop", !.event_id = event_id,
                                              !.eligible_user_ids = eligible_users,
                                              !.todo = eligible_users]]
            /\ UNCHANGED <<rows, call, attendance, certificates, archived_events,
                           report, participants>>

\* the loop body, had it not moved on to the next user
bulk_user_KeepsUser(p) ==
    /\ runs[p].pc = "loop"
    /\ runs[p].todo # {}
    /\ \E outcome \in Outcomes :
        LET u == CHOOSE x \in runs[p].todo : \A y \in runs[p].todo : x <= y
            r == generate_one(certificates, runs[p].event_id, u, outcome)
        IN  /\ certificates' = r.certificates
            /\ runs' = [runs EXCEPT
                           ![p].todo = @,
                           ![p].attempted = Append(@, u),
                           ![p].uploaded = IF outcome = "ok" THEN @ \cup {u} ELSE @,
                           ![p].failed_users =
                               IF r.error = NULL THEN @
                               ELSE @ \cup {[user_id |-> u, error |-> r.error]}]
    /\ UNCHANGED <<rows, call, ncalls, attendance, archived_events, report, participants>>

bulk_user(p) ==
    /\ runs[p].pc = "loop"
    /\ runs[p].todo # {}
    /\ \E outcome \in Outcomes :
        LET u == CHOOSE x \in runs[p].todo : \A y \in runs[p].todo : x <= y
            r == generate_one(certificates, runs[p].event_id, u, outcome)
        IN  /\ certificates' = r.certificates
            /\ runs' = [runs EXCEPT
                           ![p].todo = @ \ {u},
                           ![p].attempted = Append(@, u),
                           ![p].uploaded = IF outcome = "ok" THEN @ \cup {u} ELSE @,
                           ![p].failed_users =
                               IF r.error = NULL THEN @
                               ELSE @ \cup {[user_id |-> u, error |-> r.error]}]
    /\ UNCHANGED <<rows, call, ncalls, attendance, archived_events, report, participants>>

bulk_return(p) ==
    /\ runs[p].pc = "loop"
    /\ runs[p].todo = {}
    /\ runs' = [runs EXCEPT ![p].pc = "done", ![p].res = 200]
    /\ LET failed == {f.user_id : f \in runs[p].failed_users} IN
       report' = [Response("generate_bulk_certificates", runs[p].event_id, 0, 200,
                           "Bulk certificate generation completed")
                  EXCEPT !.eligible_user_ids = runs[p].eligible_user_ids,
                         !.generated_count = Cardinality(runs[p].eligible_user_ids \ failed),
                         !.failed_count = Cardinality(failed),
                         !.failed_users = runs[p].failed_users,
                         !.uploaded = runs[p].uploaded,
                         !.previous = [op |-> report.op, event_id |-> report.event_id,
                                       res |-> report.res]]
    /\ UNCHANGED <<rows, call, ncalls, attendance, certificates, archived_events,
                   participants>>

NextRuns == \E p \in Sessions : bulk_begin(p) \/ bulk_user(p) \/ bulk_return(p)

NextBulk ==
    \/ upload_e_certificate
    \/ upload_batch_certificates
    \/ NextRuns

\* two officers run generate_bulk at the same time, next to manual uploads
SpecBulk == InitCert /\ [][NextBulk]_vars

\* the generate_bulk requests alone; a request that is being served is not
\* left waiting for ever: the worker runs its handler to the end
FairBulk ==
    /\ InitCert
    /\ [][NextRuns]_vars
    /\ \A p \in Sessions : WF_vars(bulk_user(p)) /\ WF_vars(bulk_return(p))

(***************************************************************************)
(* Shapes the properties below share.                                      *)
(***************************************************************************)
\* the request served by the step of Spec that has just been taken
Served == call'["s1"]

UserOps == {"update_receipt", "select_cash_payment"}

IsApproval(c) ==
    c.res = 200 /\ (c.op \in CashOps
                    \/ (c.op = "officer_verify_membership" /\ c.action = "approve"))

(***************************************************************************)
(* C3: for every (user, requirement) pair there is never more than one     *)
(* active Clearance row.                                                   *)
(***************************************************************************)
OneActivePerUserRequirement ==
    \A i, j \in Active(rows) :
        (rows[i].user_id = rows[j].user_id /\ rows[i].requirement = rows[j].requirement)
            => i = j

(***************************************************************************)
(* C4: a row is Paid only as the result of an explicit approval: every     *)
(* step after which a row is Paid that was not Paid before it (or did not  *)
(* exist) is a successful verify(approve) or officer cash confirmation.    *)
(***************************************************************************)
BecamePaid(i) ==
    /\ rows'[i].payment_status = "Paid"
    /\ (i \in Ids(rows) => rows[i].payment_status # "Paid")

PaidOnlyByApproval ==
    [][\A i \in Ids(rows') : BecamePaid(i) => IsApproval(Served)]_vars

(***************************************************************************)
(* C5: Paid is terminal for user-initiated operations: a submit_receipt or *)
(* select_cash leaves every row that is Paid / Clear at Paid / Clear.      *)
(***************************************************************************)
PaidTerminalForUser ==
    [][Served.op \in UserOps =>
        \A i \in Ids(rows) :
            (rows[i].payment_status = "Paid" /\ rows[i].status = "Clear")
                => (rows'[i].payment_status = "Paid" /\ rows'[i].status = "Clear")]_vars


(***************************************************************************)
(* C1: no two distinct active rows hold the same (payment_method,          *)
(* reference_number) pair with both components non-null, whatever the      *)
(* payment method (a row confirmed as cash keeps the reference it stored). *)
(***************************************************************************)
HasReference(r) == r.payment_method # NULL /\ r.reference_number # NullRef

UniqueActiveReference ==
    \A i, j \in Active(rows) :
        (i # j /\ HasReference(rows[i]) /\ HasReference(rows[j]))
            => ~(rows[i].payment_method = rows[j].payment_method
                 /\ rows[i].reference_number = rows[j].reference_number)

\* a cash confirmation was refused at commit because the reference left on its
\* record is the one another active cash record still stores
C1Witness ==
    \E p \in Sessions :
        /\ call[p].op \in CashOps /\ call[p].pc = "done" /\ call[p].res = 500
        /\ rows[call[p].mid].reference_number # NullRef
        /\ \E i \in Active(rows) :
            /\ i # call[p].mid
            /\ rows[i].payment_method = "cash"
            /\ rows[i].reference_number = rows[call[p].mid].reference_number

(***************************************************************************)
(* C2: no two distinct active rows hold the same non-null receipt_number.  *)
(***************************************************************************)
UniqueActiveReceipt ==
    \A i, j \in Active(rows) :
        (i # j /\ rows[i].receipt_number # NullRef)
            => rows[i].receipt_number # rows[j].receipt_number

\* a cash confirmation was refused for a receipt an active row holds
C2Witness ==
    \E p \in Sessions :
        /\ call[p].op \in CashOps /\ call[p].pc = "done" /\ call[p].res \in {409, 500}
        /\ \E i \in Active(rows) : rows[i].receipt_number = call[p].receipt_number

(***************************************************************************)
(* C8: a submit_receipt whose (payment method, normalised reference) is    *)
(* held by another active record returns 409 Conflict and changes no row.  *)
(***************************************************************************)
SubmitWithUsedReference ==
    /\ Served.op = "update_receipt"
    /\ Served.res \in {200, 409, 500}
    /\ \E i \in Active(rows) :
        /\ i # Served.mid
        /\ rows[i].payment_method = NormPaymentType(Served.payment_type)
        /\ rows[i].reference_number = CleanReference(Served.reference_number)

UsedReferenceIsConflict ==
    [][SubmitWithUsedReference => (Served.res = 409 /\ rows' = rows)]_vars

C8Witness ==
    /\ call["s1"].op = "update_receipt"
    /\ call["s1"].res = 409
    /\ call["s1"].detail = "Reference number already used"

(***************************************************************************)
(* C9: verify(deny) on a Verifying record leaves it Not Paid / Not Yet     *)
(* Cleared with receipt_path, payment_method and payment_date null and     *)
(* denial_reason the reason given; and a submit_receipt by the owner on a  *)
(* record so denied has the outcome it has on a freshly created record in  *)
(* its place, which, when accepted, is Verifying / Processing.             *)
(***************************************************************************)
Denied(r) ==
    /\ r.payment_status = "Not Paid" /\ r.status = "Not Yet Cleared"
    /\ r.receipt_path = NULL /\ r.payment_method = NULL /\ r.payment_date = NULL

DenyResets ==
    (/\ Served.op = "officer_verify_membership" /\ Served.action = "deny"
     /\ Served.res = 200
     /\ rows[Served.mid].payment_status = "Verifying")
        => /\ Denied(rows'[Served.mid])
           /\ rows'[Served.mid].denial_reason = Served.denial_reason

\* the table with row i replaced by the record a fan-out would create
WithFresh(rs, i) ==
    [rs EXCEPT ![i] = NewClearance(rs[i].user_id, rs[i].requirement, rs[i].amount,
                                   "Not Paid", NULL)]

Submitted(r, c) ==
    /\ r.payment_status = "Verifying" /\ r.status = "Processing"
    /\ r.payment_method = NormPaymentType(c.payment_type)
    /\ r.reference_number = CleanReference(c.reference_number)
    /\ r.receipt_path = ReceiptUrl /\ r.payment_date = Now

ResubmitAsNew ==
    (/\ Served.op = "update_receipt" /\ Served.res \in {200, 409, 500}
     /\ Denied(rows[Served.mid])
     /\ rows[Served.mid].reference_number # NullRef)
        => \A o \in RunAll(WithFresh(rows, Served.mid),
                           [Idle EXCEPT !.op = "update_receipt", !.pc = "start",
                                        !.user = Served.user, !.mid = Served.mid,
                                        !.payment_type = Served.payment_type,
                                        !.reference_number = Served.reference_number]) :
              /\ o.c.res = Served.res
              /\ Served.res = 200 =>
                    /\ Submitted(rows'[Served.mid], Served)
                    /\ Submitted(o.rows[Served.mid], Served)
              /\ Served.res # 200 => rows' = rows

DenyThenResubmit == [][DenyResets /\ ResubmitAsNew]_vars

\* a record that was denied with a reason has been submitted again and accepted
C9Witness ==
    /\ call["s1"].op = "update_receipt" /\ call["s1"].res = 200
    /\ rows[call["s1"].mid].payment_status = "Verifying"
    /\ rows[call["s1"].mid].denial_reason # NULL

(***************************************************************************)
(* C10: an officer cash confirmation is all-or-nothing: every step of a    *)
(* cash confirmation other than its successful commit, and in particular   *)
(* the step in which it fails, leaves every row as it was.                 *)
(***************************************************************************)
CashAllOrNothing ==
    [][\A p \in Sessions :
        (/\ call'[p] # call[p]
         /\ (call[p].op \in CashOps \/ call'[p].op \in CashOps)
         /\ ~(call'[p].pc = "done" /\ call'[p].res = 200))
            => rows' = rows]_vars

\* a cash confirmation failed at its commit
C10Witness ==
    \E p \in Sessions :
        /\ call[p].op \in CashOps /\ call[p].pc = "done" /\ call[p].res = 500

(***************************************************************************)
(* C6: when two cash confirmations that name the same user and requirement *)
(* with different receipt numbers have both returned, exactly one returned *)
(* 200, its record is Paid with its receipt number, and the other returned *)
(* 409 "Membership is already paid".                                       *)
(***************************************************************************)
CashBothReturned ==
    \A p \in Sessions :
        /\ call[p].op \in CashOps /\ call[p].pc = "done"
        /\ call[p].res \in {200, 409, 500}

SameMembership ==
    /\ call["s1"].user = call["s2"].user
    /\ call["s1"].requirement = call["s2"].requirement

SameReceipt ==
    StripReceipt(call["s1"].receipt_number) = StripReceipt(call["s2"].receipt_number)

Confirmed(p) ==
    /\ call[p].res = 200
    /\ rows[call[p].mid].payment_status = "Paid"
    /\ rows[call[p].mid].receipt_number = call[p].receipt_number

OneConfirmedOtherAlreadyPaid ==
    (CashBothReturned /\ SameMembership /\ ~SameReceipt)
        => \E p, q \in Sessions :
            /\ p # q
            /\ Confirmed(p)
            /\ call[q].res = 409 /\ call[q].detail = "Membership is already paid"

\* the same statement for the tables that hold one active record per membership
OneRecordPerMembership ==
    \A i, j \in Active(rows) :
        (rows[i].user_id = rows[j].user_id /\ rows[i].requirement = rows[j].requirement)
            => i = j

OneConfirmedOtherAlreadyPaid_OneRecord ==
    OneRecordPerMembership => OneConfirmedOtherAlreadyPaid

(***************************************************************************)
(* C7: when two cash confirmations that use the same receipt number for    *)
(* two different memberships have both returned, exactly one returned 200  *)
(* and the other returned 409 Conflict.                                    *)
(***************************************************************************)
OneConfirmedOtherConflict ==
    (CashBothReturned /\ ~SameMembership /\ SameReceipt)
        => \E p, q \in Sessions :
            /\ p # q
            /\ Confirmed(p)
            /\ call[q].res = 409

\* the part of the statement that does not name the loser's status
OneConfirmedOtherRefused ==
    (CashBothReturned /\ ~SameMembership /\ SameReceipt)
        => \E p, q \in Sessions :
            /\ p # q
            /\ Confirmed(p)
            /\ call[q].res \in {409, 500}

(***************************************************************************)
(* C14: create_requirement called when every current user already has an   *)
(* active record for the requirement returns an error (400) and creates    *)
(* zero rows: the table is unchanged.                                      *)
(***************************************************************************)
EveryUserCovered(rs, requirement) ==
    \A u \in Users :
        \E i \in Active(rs) : rs[i].user_id = u /\ rs[i].requirement = requirement

CoveredRequirementRefused ==
    [][(/\ Served.op = "create_officer_requirement"
        /\ Served.requirement \in Requirements
        /\ Served.amount > 0
        /\ EveryUserCovered(rows, Served.requirement))
       => (Served.res = 400 /\ rows' = rows)]_vars

C14Witness ==
    /\ call["s1"].op = "create_officer_requirement"
    /\ call["s1"].res = 400
    /\ call["s1"].requirement \in Requirements
    /\ call["s1"].amount > 0
    /\ EveryUserCovered(rows, call["s1"].requirement)

(***************************************************************************)
(* C15: an approval sets payment_status = Paid, status = Clear,            *)
(* approval_date, approved_by = the officer name and clears denial_reason; *)
(* it leaves payment_method, reference_number, receipt_number,             *)
(* receipt_path and amount as they were, also on a record that is already  *)
(* Paid, and it touches no other record.                                   *)
(***************************************************************************)
ProofFields == {"payment_method", "reference_number", "receipt_number",
                "receipt_path", "amount"}

IsApprove(c) ==
    c.op = "officer_verify_membership" /\ c.action = "approve" /\ c.res = 200

ApproveSetsPaidKeepsProof ==
    [][IsApprove(Served)
       => /\ Ids(rows') = Ids(rows)
          /\ rows'[Served.mid].payment_status = "Paid"
          /\ rows'[Served.mid].status = "Clear"
          /\ rows'[Served.mid].approval_date = Now
          /\ rows'[Served.mid].approved_by = Served.officer_name
          /\ rows'[Served.mid].denial_reason = NULL
          /\ \A f \in ProofFields : rows'[Served.mid][f] = rows[Served.mid][f]
          /\ \A i \in Ids(rows) \ {Served.mid} : rows'[i] = rows[i]]_vars

\* an approval of a record that a cash confirmation had already made Paid
C15Witness ==
    /\ IsApprove(call["s1"])
    /\ rows[call["s1"].mid].receipt_number # NullRef
    /\ rows[call["s1"].mid].payment_method = "cash"

ValidCashPayload(c) ==
    /\ Strip(c.receipt_number) # <<>>
    /\ c.requirement \in Requirements
    /\ c.amount > 0

TargetRecords(rs, c) ==
    {i \in Active(rs) : rs[i].user_id = c.user /\ rs[i].requirement = c.requirement}

CashOnlyOnCashRecords ==
    [][(Served.op \in CashOps /\ Served.res # 404)
       => /\ (/\ ValidCashPayload(Served)
               /\ TargetRecords(rows, Served) # {}
               /\ \A i \in TargetRecords(rows, Served) :
                      rows[i].payment_method \notin {NULL, "cash"})
              => (Served.res = 409 /\ rows' = rows)
          /\ Served.res = 200
              => /\ rows[Served.mid].payment_method \in {NULL, "cash"}
                 /\ rows[Served.mid].payment_status # "Paid"]_vars

\* a confirmation refused on a record that is in the digital flow
C17Witness ==
    /\ call["s1"].op \in CashOps
    /\ call["s1"].res = 409
    /\ call["s1"].detail = "Membership is not marked as cash payment"
    /\ \E i \in TargetRecords(rows, call["s1"]) :
           rows[i].payment_status = "Verifying" /\ rows[i].payment_method = "gcash"

(***************************************************************************)
(* C18: update_receipt accepts a reference exactly when, without its       *)
(* whitespace and dashes, it is 13 alphanumeric characters (gcash) or 16   *)
(* digits (paymaya); it stores and compares that text in upper case, so a  *)
(* reference that differs from a used one only in case, spaces or dashes   *)
(* gets 409; payment type cash or a malformed or missing reference gets    *)
(* 400 and changes nothing.                                                *)
(***************************************************************************)
NotSeparator(ch) == ch \notin {" ", "-"}

Canonical(raw) == Upper(SelectSeq(raw, NotSeparator))

WellFormed(payment_type, raw) ==
    LET s == SelectSeq(raw, NotSeparator) IN
    \/ /\ payment_type = "gcash"
       /\ Len(s) = 13
       /\ \A k \in 1..Len(s) : s[k] \in Digit \cup UpperCase \cup LowerCase
    \/ /\ payment_type = "paymaya"
       /\ Len(s) = 16
       /\ \A k \in 1..Len(s) : s[k] \in Digit

ReferenceNormalised ==
    [][(Served.op = "update_receipt" /\ Served.res # 404)
       => LET payment_type == NormPaymentType(Served.payment_type)
              raw == Served.reference_number
          IN  /\ (Served.res = 400) <=> ~WellFormed(payment_type, raw)
              /\ Served.res = 400 => rows' = rows
              /\ Served.res = 200
                  => /\ rows'[Served.mid].reference_number = Canonical(raw)
                     /\ rows'[Served.mid].payment_method = payment_type
              /\ (/\ Served.res # 400
                   /\ \E i \in Active(rows) \ {Served.mid} :
                          /\ rows[i].payment_method = payment_type
                          /\ rows[i].reference_number = Canonical(raw))
                  => (Served.res = 409 /\ rows' = rows)]_vars

\* a reference refused as used although its text differs from the stored one
C18Witness ==
    /\ call["s1"].op = "update_receipt"
    /\ call["s1"].res = 409
    /\ call["s1"].reference_number # Canonical(call["s1"].reference_number)
    /\ \E i \in Active(rows) :
           rows[i].reference_number = Canonical(call["s1"].reference_number)

(***************************************************************************)
(* C19: a successful create_requirement creates one active record in the   *)
(* initial state (Not Paid, Not Yet Cleared, no method, no proof) for      *)
(* exactly the users that had no active record for the requirement, and    *)
(* leaves every record that existed unchanged.                             *)
(***************************************************************************)
IsInitialState(r, requirement, amount) ==
    /\ r.requirement = requirement
    /\ r.amount = amount
    /\ r.payment_status = "Not Paid"
    /\ r.status = "Not Yet Cleared"
    /\ r.payment_method = NULL
    /\ r.reference_number = NullRef
    /\ r.receipt_number = NullRef
    /\ r.receipt_path = NULL
    /\ r.archived = FALSE

FanOutPerUser ==
    [][(Served.op = "create_officer_requirement" /\ Served.res = 200)
       => LET missing == {u \in Users : \A i \in Active(rows) :
                             ~(rows[i].user_id = u /\ rows[i].requirement = Served.requirement)}
              added == Ids(rows') \ Ids(rows)
          IN  /\ \A i \in Ids(rows) : rows'[i] = rows[i]
              /\ \A u \in missing : Cardinality({i \in added : rows'[i].user_id = u}) = 1
              /\ \A i \in added : /\ rows'[i].user_id \in missing
                                  /\ IsInitialState(rows'[i], Served.requirement, Served.amount)]_vars

\* a fan-out over a table where one user already had a Paid record
C19Witness ==
    /\ call["s1"].op = "create_officer_requirement"
    /\ call["s1"].res = 200
    /\ \E i, j \in Active(rows) :
           /\ i < j
           /\ rows[i].requirement = call["s1"].requirement
           /\ rows[j].requirement = call["s1"].requirement
           /\ rows[i].payment_status = "Paid"
           /\ rows[j].payment_status = "Not Paid"
           /\ rows[j].receipt_path = NULL
           /\ rows[i].user_id # rows[j].user_id

(***************************************************************************)
(* Shapes the certificate properties share.                                *)
(***************************************************************************)
\* the users with an attendance row of the event that counts
Qualifying(att, event_id) ==
    {u \in Users : \E a \in att : /\ a.event_id = event_id
                                  /\ a.user_id = u
                                  /\ (a.checked_in_at # NULL \/ a.evaluation_completed)}

\* the users that have a certificate of the event
Certified(certs, event_id) ==
    {u \in Users : \E c \in certs : c.event_id = event_id /\ c.user_id = u}

IsBulk(r) == r.op = "generate_bulk_certificates" /\ r.res = 200

BulkIsIdempotent ==
    [][IsBulk(report')
       => /\ report'.eligible_user_ids \subseteq
                 Qualifying(attendance, report'.event_id)
                     \ Certified(certificates, report'.event_id)
          /\ certificates \subseteq certificates'
          /\ (IsBulk(report) /\ report.event_id = report'.event_id)
             => /\ report'.generated_count = 0
                /\ certificates' = certificates
                /\ report'.eligible_user_ids =
                       report.eligible_user_ids \ Certified(certificates, report.event_id)]_vars

\* a second run right after a first one, on an event that has a certificate
\* and a user still to process
C12Witness ==
    /\ IsBulk(report)
    /\ report.previous.op = "generate_bulk_certificates"
    /\ report.previous.res = 200
    /\ report.previous.event_id = report.event_id
    /\ report.eligible_user_ids # {}
    /\ Certified(certificates, report.event_id) # {}

UploadedIsCertified ==
    [][IsBulk(report')
       => /\ \A u \in report'.uploaded :
                 /\ Cardinality(CertificateOf(certificates', report'.event_id, u)) = 1
                 /\ \A c \in CertificateOf(certificates', report'.event_id, u) :
                        /\ c.certificate_url # NULL
                        /\ c.file_name # NULL
                        /\ c.issued_date = Now
                        /\ c.certificate_code # NULL
                 /\ u \notin Qualifying(attendance', report'.event_id)
                                \ Certified(certificates', report'.event_id)
          /\ report'.generated_count = Cardinality(report'.uploaded)]_vars

(***************************************************************************)
(* C26: on every active record the coarse status agrees with the payment   *)
(* status: Paid exactly when Clear, Pending or Verifying only with         *)
(* Processing, Not Paid only with Not Yet Cleared.                         *)
(***************************************************************************)
StatusAgrees(r) ==
    /\ (r.payment_status = "Paid") <=> (r.status = "Clear")
    /\ r.payment_status \in {"Pending", "Verifying"} => r.status = "Processing"
    /\ r.payment_status = "Not Paid" => r.status = "Not Yet Cleared"

StatusMatchesPaymentStatus == \A i \in Active(rows) : StatusAgrees(rows[i])

(***************************************************************************)
(* C27: every active Paid record carries a payment proof: its method is    *)
(* gcash, paymaya or cash and it has a reference number or a receipt       *)
(* number; an approval never makes Paid a record that is Not Paid with no  *)
(* method.                                                                 *)
(***************************************************************************)
HasProof(r) ==
    /\ r.payment_method \in {"gcash", "paymaya", "cash"}
    /\ (r.reference_number # NullRef \/ r.receipt_number # NullRef)

PaidHasProof ==
    \A i \in Active(rows) : rows[i].payment_status = "Paid" => HasProof(rows[i])

(***************************************************************************)
(* C30: a denial changes nothing but payment_status, status, receipt_path, *)
(* payment_method, payment_date and denial_reason of its record; so a      *)
(* record that was confirmed in cash and then denied keeps its receipt     *)
(* number, and a cash confirmation that posts that number again, also for  *)
(* the same membership, is refused with 409.                               *)
(***************************************************************************)
DenyWrites == {"payment_status", "status", "receipt_path", "payment_method",
               "payment_date", "denial_reason"}

IsDeny(c) == c.op = "officer_verify_membership" /\ c.action = "deny" /\ c.res = 200

\* the active Not Paid records that still hold the receipt number c posts
DeniedHolders(rs, c) ==
    {i \in Active(rs) : /\ rs[i].receipt_number = Strip(c.receipt_number)
                        /\ rs[i].payment_status = "Not Paid"}

DenyKeepsReceiptNumber ==
    [][/\ IsDeny(Served)
          => /\ Ids(rows') = Ids(rows)
             /\ \A f \in Fields \ DenyWrites :
                    rows'[Served.mid][f] = rows[Served.mid][f]
             /\ \A i \in Ids(rows) \ {Served.mid} : rows'[i] = rows[i]
       /\ (/\ Served.op \in CashOps
           /\ ValidCashPayload(Served)
           /\ DeniedHolders(rows, Served) # {})
          => (Served.res = 409 /\ rows' = rows)]_vars

\* the denied membership itself is the one the confirmation is posted for
C30Witness ==
    /\ call["s1"].op \in CashOps
    /\ call["s1"].res = 409
    /\ \E i \in DeniedHolders(rows, call["s1"]) :
           /\ rows[i].user_id = call["s1"].user
           /\ rows[i].requirement = call["s1"].requirement
           /\ rows[i].payment_method = NULL
           /\ rows[i].approved_by # NULL

(***************************************************************************)
(* C28: a user request (select_cash_payment, update_receipt) that read its *)
(* record before an approval or a cash confirmation committed Paid never   *)
(* overwrites the committed Paid with Pending or Verifying.                *)
(***************************************************************************)
OverwritesPaid(p) ==
    /\ call[p].op \in UserOps
    /\ call[p].pc \notin {"idle", "done"}
    /\ call[p].snap.payment_status # "Paid"
    /\ call[p].mid \in Active(rows)
    /\ rows[call[p].mid].payment_status = "Paid"
    /\ rows'[call[p].mid].payment_status \in {"Pending", "Verifying"}

PaidNotLostToUserRequest == [][\A p \in Sessions : ~OverwritesPaid(p)]_vars

(***************************************************************************)
(* C29: archived records do not block active ones: a cash confirmation     *)
(* with a valid payload, on a membership that is active, not Paid and      *)
(* without a digital method, whose receipt number appears on archived      *)
(* records only, succeeds.                                                 *)
(***************************************************************************)
OnArchivedOnly(rs, receipt_number) ==
    /\ \E i \in Ids(rs) : rs[i].archived /\ rs[i].receipt_number = receipt_number
    /\ \A i \in Active(rs) : rs[i].receipt_number # receipt_number

ArchivedReceiptDoesNotBlock ==
    [][(/\ Served.op \in CashOps
        /\ ValidCashPayload(Served)
        /\ OnArchivedOnly(rows, Strip(Served.receipt_number))
        /\ TargetRecords(rows, Served) # {}
        /\ \A i \in TargetRecords(rows, Served) :
               /\ rows[i].payment_status # "Paid"
               /\ rows[i].payment_method \in {NULL, "cash"})
       => Served.res = 200]_vars

(***************************************************************************)
(* C25: every user get_eligible_users returns for an event is registered   *)
(* for the event (is in event_participants) when it is called, after any   *)
(* sequence of join, check-in, leave and remove-check-in requests.         *)
(***************************************************************************)
EligibleAreParticipants ==
    [][(report'.op \in {"get_eligible_count", "generate_bulk_certificates"}
        /\ report'.res = 200)
       => report'.eligible_user_ids \subseteq participants[report'.event_id]]_vars

(***************************************************************************)
(* C23: in generate_bulk every certificate row that is persisted belongs   *)
(* to a user whose artifact was uploaded before and points to it, and a    *)
(* user whose pass failed, also after the upload, has no row of the event  *)
(* afterwards.                                                             *)
(***************************************************************************)
RowOnlyAfterUpload ==
    [][IsBulk(report')
       => /\ \A c \in certificates' \ certificates :
                 /\ c.event_id = report'.event_id
                 /\ c.user_id \in report'.uploaded
                 /\ c.certificate_url = "generated"
          /\ \A f \in report'.failed_users :
                 CertificateOf(certificates', report'.event_id, f.user_id) = {}]_vars

\* a pass that failed after its artifact was uploaded
C23Witness ==
    /\ IsBulk(report)
    /\ \E f \in report.failed_users :
           /\ f.user_id \in report.uploaded
           /\ CertificateOf(certificates, report.event_id, f.user_id) = {}

(***************************************************************************)
(* C21: there is never more than one certificate row per (user, event);    *)
(* and when two generate_bulk runs that are in their loops at the same     *)
(* time have both uploaded a certificate for the same user, one row is     *)
(* persisted for the user and exactly one of the two runs reports the user *)
(* in failed_users.                                                        *)
(***************************************************************************)
BothIssued(p, q, u) ==
    /\ p # q
    /\ runs[p].pc = "loop"
    /\ runs[q].pc = "loop"
    /\ runs[p].event_id = runs[q].event_id
    /\ u \in runs[p].uploaded \cap runs[q].uploaded

ListsFailed(p, u) == \E f \in runs[p].failed_users : f.user_id = u

\* the first part alone: at most one row per (user, event)
OneRowPerUserEvent ==
    \A c, d \in certificates :
        (c.user_id = d.user_id /\ c.event_id = d.event_id) => c = d

OneRowWhenRunsCollide ==
    /\ OneRowPerUserEvent
    /\ \A p, q \in Sessions : \A u \in Users :
           BothIssued(p, q, u)
           => /\ Cardinality(CertificateOf(certificates, runs[p].event_id, u)) = 1
              /\ ListsFailed(p, u) # ListsFailed(q, u)

(***************************************************************************)
(* C24: every generate_bulk request that enters its loop attempts each     *)
(* user of its eligible set exactly once and then returns its report.      *)
(***************************************************************************)
NoRepeats(seq) == \A i, j \in 1..Len(seq) : seq[i] = seq[j] => i = j

AttemptedOnce(p) ==
    /\ NoRepeats(runs[p].attempted)
    /\ {runs[p].attempted[i] : i \in 1..Len(runs[p].attempted)}
           = runs[p].eligible_user_ids \ runs[p].todo
    /\ runs[p].pc = "done" => runs[p].todo = {}

CodesUnique ==
    \A c, d \in certificates :
        (c.certificate_code # NULL /\ c.certificate_code = d.certificate_code) => c = d

====
